---- MODULE Spec2Model ----
(***************************************************************************)
(* A model of the rich-text editing core of the editor front-end:          *)
(*   - the suggestion overlay   (SuggestionsMenu, SuggestionsMenu.tsx)     *)
(*   - its overlay positioner   (calculatePosition)                        *)
(*   - the selection toolbar    (SelectionToolbar, same file)              *)
(*   - the extension presets    (shared/editor/nodes/index.ts)             *)
(* Text is modelled as sequences of one-character strings so that          *)
(* toLowerCase and includes are computed, not assumed.                     *)
(***************************************************************************)
EXTENDS Integers, Sequences, FiniteSets, TLC

VARIABLES
    props,          \* the props of the latest render of SuggestionsMenu
    commands,       \* useEditor().commands: the set of command names present
    insertItem,     \* React state insertItem: <<>> (undefined) or <<item>>
    selectedIndex,  \* React state selectedIndex
    position,       \* React state position
    filtered,       \* the memoised candidate list of the latest render
    layout,         \* what calculatePosition measures (carets, panel, window)
    event,          \* the event handled by the last step
    fx,             \* the calls the last step made on its collaborators, in order
    toolbar,        \* SelectionToolbar: the editor state it reads, what it renders
    mounted,        \* the component a run mounts and drives
    listeners,      \* the handlers registered on window, in registration order
    toolbarHooks,   \* SelectionToolbar: isActive of the latest render, last callback
    extensions,     \* nodes/index.ts: the arrays its evaluation has built so far
    model           \* a BaseModel: isSaving, isNew and the calls of save and delete

vars == <<props, commands, insertItem, selectedIndex, position, filtered,
          layout, event, fx, toolbar, mounted, listeners, toolbarHooks,
          extensions, model>>

(***************************************************************************)
(* Bounds of the model.                                                    *)
(***************************************************************************)
MaxSearchLen == 2
MaxRows == 3
MaxCols == 2

(***************************************************************************)
(* Text.                                                                   *)
(***************************************************************************)
Chars == {"h", "H", "e", "E"}

\* String.prototype.toLowerCase, one character
lowerChar(c) == CASE c = "H" -> "h" [] c = "E" -> "e" [] OTHER -> c

\* String.prototype.toLowerCase
toLowerCase(s) == [i \in 1..Len(s) |-> lowerChar(s[i])]

\* String.prototype.includes
includes(s, sub) ==
    \E i \in 0..(Len(s) - Len(sub)) :
        \A j \in 1..Len(sub) : s[i + j] = sub[j]

None == <<>>
Some(x) == <<x>>

(***************************************************************************)
(* Menu items.  A MenuItem or EmbedDescriptor is a record; an absent       *)
(* string field is the empty string (both are falsy in the code), an       *)
(* absent matcher is NoMatcher, and hasAppendSpace says whether the key    *)
(* "appendSpace" is present.                                               *)
(***************************************************************************)
NoMatcher == "NoMatcher"

Item(name, title, keywords, defaultHidden, hasAppendSpace, attrs) ==
    [name |-> name, title |-> title, keywords |-> keywords,
     defaultHidden |-> defaultHidden, hasAppendSpace |-> hasAppendSpace,
     attrs |-> attrs, matcher |-> NoMatcher, visible |-> TRUE]

Separator == Item("separator", <<>>, <<>>, FALSE, FALSE, "")

HeadingItem    == Item("heading", <<"H", "e">>, <<>>, FALSE, FALSE, "level1")
TableItem      == Item("table", <<"e", "h">>, <<>>, FALSE, FALSE, "")
MentionItem    == Item("mention", <<"h", "h">>, <<>>, FALSE, TRUE, "user1")
HiddenItem     == Item("code_block", <<"H", "E">>, <<>>, TRUE, FALSE, "")
RuleItem       == Item("hr", <<"e", "e">>, <<"h">>, FALSE, FALSE, "")
ImageItem      == Item("image", <<"e", "H">>, <<>>, FALSE, FALSE, "")
AttachmentItem == Item("attachment", <<"h", "e">>, <<>>, FALSE, FALSE, "")
LinkItem       == Item("link", <<"E", "h">>, <<>>, FALSE, FALSE, "")
PlainEmbedItem == Item("embed", <<"e">>, <<>>, FALSE, FALSE, "")
NamelessItem   == Item("", <<"h", "E">>, <<>>, FALSE, FALSE, "")

\* embed descriptors as the host passes them (their name is set by filtered)
Embed(title, matcher, visible) ==
    [name |-> "", title |-> title, keywords |-> <<>>, defaultHidden |-> FALSE,
     hasAppendSpace |-> FALSE, attrs |-> "", matcher |-> matcher,
     visible |-> visible]

VideoEmbed     == Embed(<<"h", "E">>, "videoMatcher", TRUE)
InvisibleEmbed == Embed(<<"H">>, "videoMatcher", FALSE)
UntitledEmbed  == Embed(<<>>, "videoMatcher", TRUE)

\* what can be typed or pasted into the link input
Hrefs == {"video.example/1", "not-a-link"}

\* insertItem.matcher(href)
matcherAccepts(m, href) ==
    CASE m = "videoMatcher" -> href = "video.example/1"
      [] OTHER -> FALSE

\* the command tables useEditor() can supply
AllCommands ==
    {"heading", "createTable", "mention", "code_block", "hr", "image",
     "attachment", "link", "embed"}

\* what the host can hand to the overlay in one render: the items, the embeds,
\* whether an upload callback is given, whether filtering is on, and the
\* command table of the editor
Host(items, embeds, uploadFile, filterable, cmds) ==
    [items |-> items, embeds |-> embeds, uploadFile |-> uploadFile,
     filterable |-> filterable, commands |-> cmds]

Hosts ==
    { Host(<<>>, <<>>, FALSE, TRUE, AllCommands),
      Host(<<HeadingItem, Separator, MentionItem>>,
           <<InvisibleEmbed, VideoEmbed>>, TRUE, TRUE, AllCommands),
      Host(<<Separator, HeadingItem, Separator, Separator, RuleItem>>,
           <<>>, FALSE, TRUE, AllCommands),
      Host(<<HiddenItem, NamelessItem, LinkItem>>,
           <<InvisibleEmbed, UntitledEmbed>>, FALSE, FALSE, AllCommands),
      Host(<<ImageItem, AttachmentItem, PlainEmbedItem, Separator>>,
           <<>>, TRUE, TRUE, AllCommands),
      Host(<<ImageItem, AttachmentItem, PlainEmbedItem, Separator>>,
           <<>>, FALSE, TRUE, AllCommands),
      Host(<<TableItem, MentionItem>>, <<>>, FALSE, TRUE,
           (AllCommands \cup {"table", "createMention"}) \ {"mention"}),
      Host(<<HeadingItem, Separator, TableItem>>, <<VideoEmbed>>, FALSE, TRUE,
           AllCommands \ {"createTable", "embed"}),
      Host(<<TableItem, HeadingItem>>, <<>>, FALSE, FALSE, AllCommands) }

\* lodash capitalize: first character upper case, the rest lower case
capitalize(name) ==
    CASE name = "heading"    -> "Heading"
      [] name = "table"      -> "Table"
      [] name = "mention"    -> "Mention"
      [] name = "code_block" -> "Code_block"
      [] name = "hr"         -> "Hr"
      [] name = "image"      -> "Image"
      [] name = "attachment" -> "Attachment"
      [] name = "link"       -> "Link"
      [] name = "embed"      -> "Embed"
      [] name = "separator"  -> "Separator"
      [] OTHER               -> ""

\* the template string `create${capitalize(item.name)}`
createName(name) ==
    CASE capitalize(name) = "Heading"    -> "createHeading"
      [] capitalize(name) = "Table"      -> "createTable"
      [] capitalize(name) = "Mention"    -> "createMention"
      [] capitalize(name) = "Code_block" -> "createCode_block"
      [] capitalize(name) = "Hr"         -> "createHr"
      [] capitalize(name) = "Image"      -> "createImage"
      [] capitalize(name) = "Attachment" -> "createAttachment"
      [] capitalize(name) = "Link"       -> "createLink"
      [] capitalize(name) = "Embed"      -> "createEmbed"
      [] capitalize(name) = "Separator"  -> "createSeparator"
      [] OTHER                           -> "create"

(***************************************************************************)
(* The candidate list (the useMemo named filtered).                        *)
(***************************************************************************)
RECURSIVE SelectSeqBy(_, _)
\* Array.prototype.filter, the predicate given as the set of kept indices
SelectSeqBy(s, keep) ==
    IF s = <<>> THEN <<>>
    ELSE LET rest == SelectSeqBy(Tail(s), {i - 1 : i \in keep \ {1}})
         IN  IF 1 \in keep THEN <<Head(s)>> \o rest ELSE rest

\* the loop over props.embeds: titled, not hidden, renamed "embed"
embedItemsOf(embeds) ==
    LET keep == {i \in 1..Len(embeds) :
                    embeds[i].title # <<>> /\ embeds[i].visible}
        kept == SelectSeqBy(embeds, keep)
    IN  [i \in 1..Len(kept) |-> [kept[i] EXCEPT !.name = "embed"]]

\* items = [...props.items], then concat(separator, embedItems)
allItems(p) ==
    LET embedItems == embedItemsOf(p.embeds)
    IN  IF Len(embedItems) > 0
        THEN p.items \o <<Separator>> \o embedItems
        ELSE p.items

\* commands[name] is defined
hasCommand(cmds, name) == name \in cmds

\* the predicate of items.filter(...) in filtered, with everything kept when
\* filtering is disabled (a mutation of keepItem)
keepItemUnfiltered(item, p, cmds) ==
    IF item.name = "separator" THEN TRUE
    ELSE IF item.name # "" /\ ~hasCommand(cmds, item.name)
                           /\ ~hasCommand(cmds, createName(item.name))
    THEN FALSE
    ELSE IF ~p.uploadFile /\ item.name = "image" THEN FALSE
    ELSE IF p.search = <<>> THEN ~item.defaultHidden
    ELSE TRUE

\* the predicate of items.filter(...) in filtered without the test of
\* defaultHidden (a mutation of keepItem)
keepItemWithHidden(item, p, cmds) ==
    LET searchInput == toLowerCase(p.search)
    IN  IF item.name = "separator" THEN TRUE
        ELSE IF item.name # "" /\ ~hasCommand(cmds, item.name)
                               /\ ~hasCommand(cmds, createName(item.name))
        THEN FALSE
        ELSE IF ~p.uploadFile /\ item.name = "image" THEN FALSE
        ELSE IF p.search = <<>> THEN TRUE
        ELSE IF ~p.filterable THEN TRUE
        ELSE \/ includes(toLowerCase(item.title), searchInput)
             \/ includes(toLowerCase(item.keywords), searchInput)

\* the predicate of items.filter(...) in filtered
keepItem(item, p, cmds) ==
    LET searchInput == toLowerCase(p.search)
    IN  IF item.name = "separator" THEN TRUE
        ELSE IF item.name # "" /\ ~hasCommand(cmds, item.name)
                               /\ ~hasCommand(cmds, createName(item.name))
        THEN FALSE
        ELSE IF ~p.uploadFile /\ item.name = "image" THEN FALSE
        ELSE IF p.search = <<>> THEN ~item.defaultHidden
        ELSE IF ~p.filterable THEN TRUE
        ELSE \/ includes(toLowerCase(item.title), searchInput)
             \/ includes(toLowerCase(item.keywords), searchInput)

RECURSIVE isSubsequence(_, _)
\* the characters of q occur in s in order
isSubsequence(q, s) ==
    IF q = <<>> THEN TRUE
    ELSE IF s = <<>> THEN FALSE
    ELSE IF Head(q) = Head(s) THEN isSubsequence(Tail(q), Tail(s))
    ELSE isSubsequence(q, Tail(s))

\* command-score: 0 when the abbreviation does not fuzzily match the string,
\* positive when it does (compared case-insensitively); only the sign is kept
commandScore(string, abbreviation) ==
    IF isSubsequence(toLowerCase(abbreviation), toLowerCase(string))
    THEN 1 ELSE 0

\* the one-argument comparator handed to sort
sortComparator(item, searchInput) ==
    IF searchInput # <<>> /\ item.title # <<>>
    THEN commandScore(item.title, searchInput)
    ELSE 0

\* every rearrangement of a list
rearrangements(s) ==
    {[i \in 1..Len(s) |-> s[f[i]]] : f \in Permutations(1..Len(s))}

\* Array.prototype.sort with that comparator.  The comparator ignores its
\* second argument: when it is 0 for every element all elements compare equal
\* and the (stable) sort keeps the order; otherwise it is not a consistent
\* comparator and the order is implementation-defined.
sortOutcomes(s, searchInput) ==
    IF \A i \in 1..Len(s) : sortComparator(s[i], searchInput) = 0
    THEN {s}
    ELSE rearrangements(s)

RECURSIVE collapseSeparators(_, _)
\* drops a separator that would start the list or follow a separator
collapseSeparators(s, atEdge) ==
    IF s = <<>> THEN <<>>
    ELSE IF Head(s).name = "separator"
    THEN IF atEdge THEN collapseSeparators(Tail(s), TRUE)
         ELSE <<Head(s)>> \o collapseSeparators(Tail(s), TRUE)
    ELSE <<Head(s)>> \o collapseSeparators(Tail(s), FALSE)

\* filterExcessSeparators: at most one separator between runs of real
\* entries, none leading, none trailing
filterExcessSeparators(s) ==
    LET c == collapseSeparators(s, TRUE)
    IN  IF c # <<>> /\ c[Len(c)].name = "separator"
        THEN SubSeq(c, 1, Len(c) - 1)
        ELSE c

\* the filter step of filtered
filterItems(p, cmds) ==
    LET items == allItems(p)
    IN  SelectSeqBy(items, {i \in 1..Len(items) : keepItem(items[i], p, cmds)})

\* filtered without the final filterExcessSeparators (a mutation)
filteredOutcomesUncollapsed(p, cmds) ==
    sortOutcomes(filterItems(p, cmds), toLowerCase(p.search))

\* the lists the useMemo can yield for given props and commands
filteredOutcomes(p, cmds) ==
    {filterExcessSeparators(s) :
        s \in sortOutcomes(filterItems(p, cmds), toLowerCase(p.search))}

(***************************************************************************)
(* The overlay positioner (calculatePosition).  A coordinate is a number,  *)
(* undefined, or NaN (arithmetic on an undefined operand).                 *)
(***************************************************************************)
Num(n) == [kind |-> "number", val |-> n]
Undefined == [kind |-> "undefined", val |-> 0]
NaN == [kind |-> "NaN", val |-> 0]

Min(a, b) == IF a <= b THEN a ELSE b
Max(a, b) == IF a >= b THEN a ELSE b

\* const margin = 12
margin == 12

defaultPosition ==
    [top |-> Num(0), bottom |-> Undefined, left |-> Num(0 - 10000),
     right |-> Undefined, isAbove |-> FALSE]

Rect(top, bottom, left, right) ==
    [top |-> top, bottom |-> bottom, left |-> left, right |-> right]

\* the inner function caretPosition: the union of the two carets, or the
\* zero rectangle when view.coordsAtPos throws
caretPosition(l) ==
    IF l.coordsThrow THEN Rect(0, 0, 0, 0)
    ELSE Rect(Min(l.fromPos.top, l.toPos.top),
              Max(l.fromPos.bottom, l.toPos.bottom),
              Min(l.fromPos.left, l.toPos.left),
              Max(l.fromPos.right, l.toPos.right))

\* the vertical test of calculatePosition with >= for > (a mutation)
hasRoomAboveInclusive(top, offsetHeight) == top - offsetHeight >= margin

\* the vertical test of calculatePosition: top - offsetHeight > margin
hasRoomAbove(top, offsetHeight) == top - offsetHeight > margin

\* calculatePosition(props), reading the layout l
calculatePosition(p, l) ==
    IF ~p.isActive THEN defaultPosition
    ELSE
    LET offsetWidth  == IF l.hasRef THEN l.offsetWidth ELSE 0
        offsetHeight == IF l.hasRef THEN l.offsetHeight ELSE 0
        caret        == caretPosition(l)
        hasParent    == l.hasRef /\ l.hasOffsetParent
        parentLeft   == IF hasParent THEN l.offsetParent.left ELSE 0
        parentTop    == IF hasParent THEN l.offsetParent.top ELSE 0
        leftLtr      == Min(caret.left - parentLeft,
                            l.innerWidth - parentLeft - offsetWidth - margin)
        leftPos      == IF p.rtl THEN caret.right - offsetWidth ELSE leftLtr
    IN  IF hasRoomAbove(caret.top, offsetHeight)
        THEN [left |-> Num(leftPos), top |-> Undefined,
              bottom |-> IF hasParent
                         THEN Num(l.offsetParent.bottom - caret.top)
                         ELSE NaN,
              right |-> Undefined, isAbove |-> FALSE]
        ELSE [left |-> Num(leftPos), top |-> Num(caret.bottom - parentTop),
              bottom |-> Undefined, right |-> Undefined, isAbove |-> TRUE]

\* what the positioner can measure
CaretTops == {0, 30, 31}
CaretLefts == {5, 200}
Carets == {Rect(t, t + 10, x, x + 1) : t \in CaretTops, x \in CaretLefts}
ParentRects == {Rect(0, 300, 0, 0), Rect(2, 302, 20, 0)}

Layouts ==
    [coordsThrow : BOOLEAN, fromPos : Carets, toPos : Carets,
     hasRef : BOOLEAN, offsetWidth : {100}, offsetHeight : {18, 19},
     hasOffsetParent : BOOLEAN, offsetParent : ParentRects,
     innerWidth : {250, 400}]

\* the layout of a mounted panel in the suggestion overlay's own runs
MountedLayout ==
    [coordsThrow |-> FALSE, fromPos |-> Rect(30, 40, 5, 6),
     toPos |-> Rect(30, 40, 200, 201), hasRef |-> TRUE, offsetWidth |-> 100,
     offsetHeight |-> 18, hasOffsetParent |-> TRUE,
     offsetParent |-> Rect(0, 300, 0, 0), innerWidth |-> 400]

(***************************************************************************)
(* SuggestionsMenu: the handlers.  A handler yields the calls it makes on  *)
(* its collaborators (fx, in order) and the React state it sets.           *)
(***************************************************************************)
Fx(op, arg, attrs) == [op |-> op, arg |-> arg, attrs |-> attrs]

FxClearSearch == Fx("onClearSearch", "", "")
FxClose       == Fx("onClose", "", "")
FxCloseNewLine == Fx("onClose", "insertNewLine", "")
FxFocus       == Fx("view.focus", "", "")
FxInsertSpace == Fx("insertText", " ", "")
FxToast       == Fx("onShowToast", "embedInvalidLink", "")
FxThrow       == Fx("throw", "TypeError", "")
FxLinkToolbar == Fx("onLinkToolbarOpen", "", "")
FxCommand(name, attrs) == Fx("command", name, attrs)
FxFilePick(accept) == Fx("inputRef.click", accept, "")

Outcome(calls, item, index) ==
    [fx |-> calls, insertItem |-> item, selectedIndex |-> index]

\* a handler that returns early
NoOutcome == Outcome(<<>>, insertItem, selectedIndex)

\* filtered[i] for a zero-based i: <<entry>>, or <<>> when undefined
entryAt(list, i) ==
    IF i >= 0 /\ i < Len(list) THEN Some(list[i + 1]) ELSE None

\* insertNode closing the overlay before it runs the command (a mutation)
insertNodeCloseFirst(item) ==
    <<FxClearSearch, FxClose>>
    \o (IF item.name # "" /\ hasCommand(commands, item.name)
        THEN <<FxCommand(item.name, item.attrs)>>
        ELSE <<FxCommand(createName(item.name), item.attrs)>>)
    \o (IF item.hasAppendSpace THEN <<FxInsertSpace>> ELSE <<>>)

\* insertNode(item): the calls it makes, ending at the TypeError when neither
\* command exists
insertNode(item) ==
    LET literal  == item.name # "" /\ hasCommand(commands, item.name)
        fallback == createName(item.name)
    IN  IF literal \/ hasCommand(commands, fallback)
        THEN <<FxClearSearch,
               FxCommand(IF literal THEN item.name ELSE fallback, item.attrs)>>
             \o (IF item.hasAppendSpace THEN <<FxInsertSpace>> ELSE <<>>)
             \o <<FxClose>>
        ELSE <<FxClearSearch, FxThrow>>

\* triggerFilePick(accept): the file input exists only with props.uploadFile
triggerFilePick(accept) ==
    IF props.uploadFile THEN <<FxFilePick(accept)>> ELSE <<>>

\* handleClickItem without its "embed" case (a mutation)
handleClickItemNoLinkInput(item) ==
    CASE item.name = "image" ->
            Outcome(triggerFilePick("image/*"), insertItem, selectedIndex)
      [] item.name = "attachment" ->
            Outcome(triggerFilePick("*"), insertItem, selectedIndex)
      [] item.name = "link" ->
            Outcome(<<FxClearSearch, FxClose, FxLinkToolbar>>,
                    insertItem, selectedIndex)
      [] OTHER ->
            Outcome(insertNode(item), insertItem, selectedIndex)

\* handleClickItem(item)
handleClickItem(item) ==
    CASE item.name = "image" ->
            Outcome(triggerFilePick("image/*"), insertItem, selectedIndex)
      [] item.name = "attachment" ->
            Outcome(triggerFilePick("*"), insertItem, selectedIndex)
      [] item.name = "embed" ->
            Outcome(<<>>, Some(item), selectedIndex)
      [] item.name = "link" ->
            Outcome(<<FxClearSearch, FxClose, FxLinkToolbar>>,
                    insertItem, selectedIndex)
      [] OTHER ->
            Outcome(insertNode(item), insertItem, selectedIndex)

\* close()
close == <<FxClose, FxFocus>>

PrevKeys == {"ArrowUp", "Shift+Tab", "Ctrl+p"}
NextKeys == {"ArrowDown", "Tab", "Ctrl+n"}
Keys == {"Enter", "Escape"} \cup PrevKeys \cup NextKeys

\* the "previous" branch stepping back by one over whatever is there (a
\* mutation)
prevIndexOfNoSkip(list, index) == Max(0, index - 1)

\* the index the "previous" branch of handleKeyDown sets
prevIndexOf(list, index) ==
    LET prevIndex == index - 1
        prev == entryAt(list, prevIndex)
    IN  Max(0, IF prev # None /\ prev[1].name = "separator"
               THEN prevIndex - 1 ELSE prevIndex)

\* the "next" branch without the clamp to the last index (a mutation)
nextIndexOfUnclamped(list, index) ==
    LET nextIndex == index + 1
        next == entryAt(list, nextIndex)
    IN  IF next # None /\ next[1].name = "separator"
        THEN nextIndex + 1 ELSE nextIndex

\* the index the "next" branch of handleKeyDown sets
nextIndexOf(list, index) ==
    LET total == Len(list) - 1
        nextIndex == index + 1
        next == entryAt(list, nextIndex)
    IN  Min(IF next # None /\ next[1].name = "separator"
            THEN nextIndex + 1 ELSE nextIndex,
            total)

\* the arrow branches closing only on "next" when the list is empty, so that
\* "previous" sets the index instead (a mutation)
handleArrowNoClose(key) ==
    IF key \in PrevKeys
    THEN Outcome(<<>>, insertItem, prevIndexOf(filtered, selectedIndex))
    ELSE IF Len(filtered) > 0
    THEN Outcome(<<>>, insertItem, nextIndexOf(filtered, selectedIndex))
    ELSE Outcome(close, insertItem, selectedIndex)

\* the ArrowUp / ArrowDown branches of handleKeyDown
handleArrow(key) ==
    IF Len(filtered) > 0
    THEN Outcome(<<>>, insertItem,
                 IF key \in PrevKeys
                 THEN prevIndexOf(filtered, selectedIndex)
                 ELSE nextIndexOf(filtered, selectedIndex))
    ELSE Outcome(close, insertItem, selectedIndex)

\* the Enter branch of handleKeyDown signalling no new line (a mutation)
handleEnterNoNewLine ==
    LET item == entryAt(filtered, selectedIndex)
    IN  IF item # None THEN handleClickItem(item[1])
        ELSE Outcome(<<FxClose>>, insertItem, selectedIndex)

\* the Enter branch of handleKeyDown
handleEnter ==
    LET item == entryAt(filtered, selectedIndex)
    IN  IF item # None THEN handleClickItem(item[1])
        ELSE Outcome(<<FxCloseNewLine>>, insertItem, selectedIndex)

\* the window keydown listener; it calls stopPropagation except on Escape
handleKeyDown(key) ==
    IF ~props.isActive THEN NoOutcome
    ELSE CASE key = "Enter" -> handleEnter
           [] key \in PrevKeys \cup NextKeys -> handleArrow(key)
           [] key = "Escape" -> Outcome(close, insertItem, selectedIndex)
           [] OTHER -> NoOutcome

\* whether the window listener, registered with capture, stops the event
\* before it reaches its target
stopsPropagation(key) ==
    props.isActive /\ key \in {"Enter"} \cup PrevKeys \cup NextKeys

\* the embed item handleLinkInputKeydown and handleLinkInputPaste insert
embedNode(href) == Item("embed", <<>>, <<>>, FALSE, FALSE, href)

\* "matcher" in insertItem && insertItem.matcher(href)
linkMatches(href) ==
    /\ insertItem # None
    /\ insertItem[1].matcher # NoMatcher
    /\ matcherAccepts(insertItem[1].matcher, href)

\* handleLinkInputKeydown(event), the input's own keydown handler
handleLinkInputKeydown(key, href) ==
    IF ~props.isActive \/ insertItem = None THEN <<>>
    ELSE CASE key = "Enter" ->
                IF linkMatches(href) THEN insertNode(embedNode(href))
                ELSE <<FxToast>>
           [] key = "Escape" -> <<FxClose, FxFocus>>
           [] OTHER -> <<>>

\* handleLinkInputPaste(event)
handleLinkInputPaste(href) ==
    IF ~props.isActive \/ insertItem = None THEN <<>>
    ELSE IF linkMatches(href) THEN insertNode(embedNode(href))
    ELSE <<>>

\* handleMouseDown(event), the window mousedown listener
handleMouseDown(inside) ==
    IF inside THEN <<>> ELSE <<FxClose>>

(***************************************************************************)
(* SuggestionsMenu: the state machine.                                     *)
(***************************************************************************)
\* the set of the entries of a list
entriesOf(list) == {list[i] : i \in 1..Len(list)}

\* a handler registered on window: the event it listens to, whether the
\* latest render of the component is the render that created it, and the
\* values of the effect's dependencies its closure holds
Listener(kind, latest, deps) ==
    [kind |-> kind, latest |-> latest, deps |-> deps]

\* window.addEventListener for each kind of an effect, with the handlers the
\* render created
addEventListeners(ls, kinds, deps) ==
    ls \o (IF "mousedown" \in kinds THEN <<Listener("mousedown", TRUE, deps)>>
           ELSE <<>>)
       \o (IF "keydown" \in kinds THEN <<Listener("keydown", TRUE, deps)>>
           ELSE <<>>)
       \o (IF "mouseup" \in kinds THEN <<Listener("mouseup", TRUE, deps)>>
           ELSE <<>>)

\* the cleanup of an effect removing nothing (a mutation)
removeNoListeners(ls, kinds) == ls

\* the cleanup an effect returns: window.removeEventListener for each kind
removeEventListeners(ls, kinds) ==
    SelectSeqBy(ls, {i \in 1..Len(ls) : ls[i].kind \notin kinds})

\* what a step does to the handlers of an effect: "rerun" when a dependency
\* changed in the latest render (cleanup, then register with the values deps
\* of that render), "kept" when the component rendered with the dependencies
\* unchanged, "rerun, kept" for those two renders in a row, "none" without
\* render
effect(ls, kinds, how, deps) ==
    LET rerun(l) ==
            addEventListeners(removeEventListeners(l, kinds), kinds, deps)
        kept(l) ==
            [i \in 1..Len(l) |->
                IF l[i].kind \in kinds
                THEN Listener(l[i].kind, FALSE, l[i].deps)
                ELSE l[i]]
    IN  CASE how = "rerun" -> rerun(ls)
          [] how = "kept" -> kept(ls)
          [] how = "rerun, kept" -> kept(rerun(ls))
          [] OTHER -> ls

\* the values of the dependencies of the listener effect of SuggestionsMenu
\* (close and handleClickItem change with props and commands)
menuDeps(p, cmds, list, index) ==
    [props |-> p, commands |-> cmds, filtered |-> list, selectedIndex |-> index]

\* the listener effect of SuggestionsMenu over one step.  Its dependencies
\* are close, filtered, handleClickItem, props and selectedIndex: a render
\* with new props runs it again, and so does one with a new selectedIndex; a
\* render in which only insertItem or position changed keeps the handlers.
\* hostRender: the host rendered the overlay with new props or commands, with
\* the state (index, item) the handler had set; the effects of that render
\* then set the state to (index2, item2) and, if positioned, a new position
\* object.
listenerEffect(hostRender, index, item, index2, item2, positioned) ==
    IF hostRender
    THEN IF index2 # index THEN "rerun"
         ELSE IF item2 # item \/ positioned THEN "rerun, kept"
         ELSE "rerun"
    ELSE IF index2 # selectedIndex THEN "rerun"
         ELSE IF item2 # insertItem THEN "kept"
         ELSE "none"

\* an event, with the selectedIndex of the render whose handlers receive it
Event(type, key, target, arg) ==
    [type |-> type, key |-> key, target |-> target, arg |-> arg,
     index |-> selectedIndex]

called(calls, op) == \E i \in 1..Len(calls) : calls[i].op = op

\* the host's onClose and onClearSearch: the overlay is deactivated, the
\* search text is removed
hostReaction(p, calls) ==
    [p EXCEPT !.isActive = IF called(calls, "onClose") THEN FALSE ELSE @,
              !.search = IF called(calls, "onClearSearch") THEN <<>> ELSE @]

\* what the useMemo reads: it yields the same list for the same inputs
memoInputs(p, cmds) ==
    <<p.items, p.embeds, p.search, p.uploadFile, p.filterable, cmds>>

\* a render with props new after props old, and the effects that follow it:
\* the effect on [calculatePosition, props.isActive], the effect on
\* [props.search], and the memo filtered
Render(old, new, cmds, index, item) ==
    LET activated == new.isActive /\ ~old.isActive
        searched  == new.search # old.search
    IN  /\ selectedIndex' = IF activated \/ searched THEN 0 ELSE index
        /\ insertItem' = IF activated THEN None ELSE item
        /\ position' = IF activated THEN calculatePosition(new, layout)
                       ELSE position
        /\ IF memoInputs(new, cmds) = memoInputs(old, commands)
           THEN filtered' = filtered
           ELSE filtered' \in filteredOutcomes(new, cmds)
        /\ listeners' =
              effect(listeners, {"mousedown", "keydown"},
                     listenerEffect(new # old \/ cmds # commands,
                                    index, item, selectedIndex', insertItem',
                                    activated),
                     menuDeps(new, cmds, filtered', selectedIndex'))

\* a handler ran with outcome out: the host reacts to its calls and the
\* component is rendered again
Handled(ev, out) ==
    LET new == hostReaction(props, out.fx)
    IN  /\ props' = new
        /\ Render(props, new, commands, out.selectedIndex, out.insertItem)
        /\ event' = ev
        /\ fx' = out.fx
        /\ mounted = "SuggestionsMenu"
        /\ UNCHANGED <<commands, layout, toolbar, mounted, toolbarHooks,
                       extensions, model>>

\* the host renders the overlay with new props or a new command table
HostRender(ev, new, cmds) ==
    /\ props' = new
    /\ commands' = cmds
    /\ Render(props, new, cmds, selectedIndex, insertItem)
    /\ event' = ev
    /\ fx' = <<>>
    /\ mounted = "SuggestionsMenu"
    /\ UNCHANGED <<layout, toolbar, mounted, toolbarHooks, extensions, model>>

\* a list entry that is rendered as a selectable row
isRow(i) ==
    /\ props.isActive
    /\ insertItem = None
    /\ entryAt(filtered, i) # None
    /\ filtered[i + 1].name # "separator"
    /\ filtered[i + 1].title # <<>>

\* a keydown event: the window listener (capture) runs first; unless it
\* stopped the event, the link input's handler runs when the input is the
\* target, either from the same render or, when the host already rendered
\* the overlay inactive, from the new one (which returns at once)
KeyDown ==
    \E key \in Keys :
    \E target \in (IF insertItem # None THEN {"editor", "linkInput"}
                   ELSE {"editor"}) :
    \E href \in (IF target = "linkInput" /\ key = "Enter" THEN Hrefs
                 ELSE {""}) :
        LET w == handleKeyDown(key)
            reaches == target = "linkInput" /\ ~stopsPropagation(key)
        IN  \E rerendered \in (IF reaches /\ called(w.fx, "onClose")
                               THEN BOOLEAN ELSE {FALSE}) :
                LET later == IF reaches /\ ~rerendered
                             THEN handleLinkInputKeydown(key, href)
                             ELSE <<>>
                IN  Handled(Event("keydown", key, target, href),
                            [w EXCEPT !.fx = @ \o later])

\* text pasted into the link input
Paste ==
    \E href \in Hrefs :
        /\ insertItem # None
        /\ Handled(Event("paste", "", "linkInput", href),
                   Outcome(handleLinkInputPaste(href), insertItem,
                           selectedIndex))

\* a mouse button pressed anywhere in the window
MouseDown ==
    \E inside \in BOOLEAN :
        /\ inside => props.isActive
        /\ Handled(Event("mousedown", "", IF inside THEN "menu" ELSE "outside",
                         ""),
                   Outcome(handleMouseDown(inside), insertItem, selectedIndex))

\* handlePointer: the pointer moves over, or is pressed on, row i
PointerItem ==
    \E i \in 0..(Len(filtered) - 1) :
        /\ isRow(i)
        /\ Handled(Event("pointer", "", "row", ""),
                   Outcome(<<>>, insertItem, i))

\* the onClick handed to renderMenuItem for row i
ClickItem ==
    \E i \in 0..(Len(filtered) - 1) :
        /\ isRow(i)
        /\ Handled(Event("click", "", "row", ToString(i)),
                   handleClickItem(filtered[i + 1]))

\* the trigger marker is typed: the host opens the overlay
Activate ==
    /\ ~props.isActive
    /\ HostRender(Event("activate", "", "", ""),
                  [props EXCEPT !.isActive = TRUE, !.search = <<>>], commands)

\* the host closes the overlay on its own
Deactivate ==
    /\ props.isActive
    /\ HostRender(Event("deactivate", "", "", ""),
                  [props EXCEPT !.isActive = FALSE], commands)

SearchChars == {"h", "E"}

\* a character typed after the trigger
TypeSearch ==
    \E c \in SearchChars :
        /\ props.isActive
        /\ Len(props.search) < MaxSearchLen
        /\ HostRender(Event("search", c, "", ""),
                      [props EXCEPT !.search = Append(@, c)], commands)

\* a character of the search text deleted
DeleteSearch ==
    /\ props.isActive
    /\ Len(props.search) > 0
    /\ HostRender(Event("search", "Backspace", "", ""),
                  [props EXCEPT !.search = SubSeq(@, 1, Len(@) - 1)],
                  commands)

\* the props of a render: what the host hands over, with isActive and search
propsOf(h, isActive, search) ==
    [isActive |-> isActive, search |-> search, items |-> h.items,
     embeds |-> h.embeds, uploadFile |-> h.uploadFile,
     filterable |-> h.filterable, rtl |-> FALSE]

\* the host passes other items, embeds or options, or the editor other
\* commands
ChangeHost ==
    \E h \in Hosts :
        LET new == propsOf(h, props.isActive, props.search)
        IN  /\ <<new, h.commands>> # <<props, commands>>
            /\ HostRender(Event("props", "", "", ""), new, h.commands)

(***************************************************************************)
(* SelectionToolbar: menu assembly.  The editor state it reads is the      *)
(* selection: a text selection, a node selection, or a cell selection (a   *)
(* rectangle of cells of a table; rows and columns are counted from 0).    *)
(***************************************************************************)
\* link: a link mark is active; hasText: the selected range has text content;
\* hasContent: some node of the selected slice has content.  A selection that
\* is not empty has both unless a variant below says otherwise.
Selection(kind, empty, inCode, node, rows, cols, top, bottom, left, right) ==
    [kind |-> kind, empty |-> empty, inCode |-> inCode, node |-> node,
     tableRows |-> rows, tableCols |-> cols,
     top |-> top, bottom |-> bottom, left |-> left, right |-> right,
     link |-> FALSE, hasText |-> ~empty /\ kind # "node",
     hasContent |-> ~empty /\ kind # "node"]

TextSel(empty, inCode) ==
    Selection("text", empty, inCode, "", 0, 0, 0, 0, 0, 0)

NodeSel(node) ==
    Selection("node", FALSE, node = "code_block", node, 0, 0, 0, 0, 0, 0)

CellSel(rows, cols, top, bottom, left, right) ==
    Selection("cell", FALSE, FALSE, "", rows, cols, top, bottom, left, right)

CellSelections ==
    {CellSel(rows, cols, t, b, l, r) :
        rows \in 1..MaxRows, cols \in 1..MaxCols,
        t \in 0..(MaxRows - 1), b \in 0..(MaxRows - 1),
        l \in 0..(MaxCols - 1), r \in 0..(MaxCols - 1)}

\* text selections over something other than plain text: over nodes without
\* text (an image in a paragraph), over empty blocks only, or in a link
TextVariants ==
    { [TextSel(FALSE, FALSE) EXCEPT !.hasText = FALSE],
      [TextSel(FALSE, FALSE) EXCEPT !.hasText = FALSE, !.hasContent = FALSE],
      [TextSel(TRUE, FALSE) EXCEPT !.link = TRUE],
      [TextSel(FALSE, FALSE) EXCEPT !.link = TRUE] }

Selections ==
    {TextSel(e, c) : e \in BOOLEAN, c \in BOOLEAN}
    \cup TextVariants
    \cup {NodeSel(n) : n \in {"image", "hr", "embed", "code_block"}}
    \cup {s \in CellSelections :
            /\ s.top <= s.bottom /\ s.bottom < s.tableRows
            /\ s.left <= s.right /\ s.right < s.tableCols}

\* an index that is undefined, or a number
NoIndex == <<>>

\* getRowIndex(selection): the first selected row when the cell selection
\* spans every column of the table (a row selection), else undefined
getRowIndex(sel) ==
    IF sel.kind = "cell" /\ sel.left = 0 /\ sel.right = sel.tableCols - 1
    THEN <<sel.top>> ELSE NoIndex

\* getColumnIndex(selection): the first selected column when the cell
\* selection spans every row of the table (a column selection), else undefined
getColumnIndex(sel) ==
    IF sel.kind = "cell" /\ sel.top = 0 /\ sel.bottom = sel.tableRows - 1
    THEN <<sel.left>> ELSE NoIndex

\* isNodeActive(type)(state)
isNodeActive(type, sel) ==
    CASE type = "code_block" -> sel.inCode
      [] type = "hr" -> sel.kind = "node" /\ sel.node = "hr"
      [] OTHER -> FALSE

ToolItem(name, attrs) == Item(name, <<>>, <<>>, FALSE, FALSE, attrs)

\* the menus
getTableMenuItems == <<ToolItem("deleteTable", "")>>

getTableColMenuItems(index, rtl) ==
    <<ToolItem("setColumnAttr", ToString(index)), Separator,
      ToolItem(IF rtl THEN "addColumnAfter" ELSE "addColumnBefore",
               ToString(index)),
      Separator, ToolItem("deleteColumn", "")>>

getTableRowMenuItems(index) ==
    <<ToolItem("addRowAfter", ToString(index)), Separator,
      ToolItem("deleteRow", "")>>

getImageMenuItems ==
    <<ToolItem("alignCenter", ""), Separator, ToolItem("deleteImage", "")>>

getDividerMenuItems == <<ToolItem("hr", "")>>

getFormattingMenuItems(isTemplate) ==
    (IF isTemplate THEN <<ToolItem("placeholder", "")>> ELSE <<>>)
    \o <<Separator, ToolItem("strong", ""), Separator, ToolItem("link", "")>>

ToolbarCommands ==
    {"deleteTable", "setColumnAttr", "addColumnAfter", "addColumnBefore",
     "deleteColumn", "addRowAfter", "deleteRow", "alignCenter", "deleteImage",
     "hr", "placeholder", "strong", "link"}

ToolbarCommandTables ==
    { ToolbarCommands,
      ToolbarCommands \ {"deleteRow", "deleteColumn", "link", "deleteTable"},
      {"strong"} }

\* useIsActive without the test of the selected text (a mutation)
useIsActiveNoTextTest(sel) ==
    IF sel.link THEN TRUE
    ELSE IF sel.empty THEN FALSE
    ELSE IF sel.kind = "node" THEN sel.node \in {"hr", "image"}
    ELSE sel.hasContent

\* useIsActive(state)
useIsActive(sel) ==
    IF sel.link THEN TRUE
    ELSE IF sel.empty THEN FALSE
    ELSE IF sel.kind = "node" /\ sel.node = "hr" THEN TRUE
    ELSE IF sel.kind = "node" /\ sel.node = "image" THEN TRUE
    ELSE IF sel.kind = "node" THEN FALSE
    ELSE IF sel.kind = "text" /\ ~sel.hasText THEN FALSE
    ELSE sel.hasContent

FxOpen == Fx("onOpen", "", "")
FxSetSelection == Fx("dispatch", "setSelection", "0")

\* usePrevious(isActive): the value of the render before, <<>> on the first
usePrevious(hooks) == IF hooks.mounted THEN Some(hooks.isActive) ELSE None

\* the open/close effect calling back on every render (a mutation)
notifyEveryRender(previousIsActive, isActive) ==
    IF isActive THEN <<FxOpen>> ELSE <<FxClose>>

\* the effect on [isActive, onClose, onOpen, previousIsActive]
notify(previousIsActive, isActive) ==
    (IF previousIsActive = Some(TRUE) /\ ~isActive THEN <<FxClose>> ELSE <<>>)
    \o (IF previousIsActive # Some(TRUE) /\ isActive THEN <<FxOpen>>
        ELSE <<>>)

\* the hooks of a render of SelectionToolbar for selection sel, after the
\* render with hooks before: last is the latest callback made
Hooks(before, sel) ==
    LET isActive == useIsActive(sel)
        calls == notify(usePrevious(before), isActive)
    IN  [mounted |-> TRUE, isActive |-> isActive,
         last |-> IF calls = <<>> THEN before.last ELSE calls[Len(calls)].op]

\* the state of the hooks before the first render
NoHooks == [mounted |-> FALSE, isActive |-> FALSE, last |-> "none"]

\* the listener effect of SelectionToolbar, on [isActive, view]
toolbarListenerEffect(before, isActive) ==
    IF ~before.mounted \/ before.isActive # isActive THEN "rerun" ELSE "kept"

\* the values of the dependencies of that effect (view never changes)
toolbarDeps(isActive) == [isActive |-> isActive]

\* handleClickOutside without the test of view.hasFocus() (a mutation)
handleClickOutsideAnyFocus(isActive, inside, inputFocus, viewFocus) ==
    IF inside THEN <<>>
    ELSE IF ~isActive \/ inputFocus THEN <<>>
    ELSE <<FxSetSelection>>

\* where the focus is when a mouse button is released: on an input element
\* (document.activeElement), in the editor (view.hasFocus()), or elsewhere
focusOf(inputFocus, viewFocus) ==
    IF inputFocus THEN (IF viewFocus THEN "input, view" ELSE "input")
    ELSE IF viewFocus THEN "view" ELSE "elsewhere"

\* handleClickOutside(ev): inside says the target is in the menu, inputFocus
\* that document.activeElement is an input, viewFocus that the view has focus
handleClickOutside(isActive, inside, inputFocus, viewFocus) ==
    IF inside THEN <<>>
    ELSE IF ~isActive \/ inputFocus THEN <<>>
    ELSE IF viewFocus THEN <<>>
    ELSE <<FxSetSelection>>

\* the if-chain that picks the menu testing the column before the table (a
\* mutation)
pickMenuColumnFirst(sel) ==
    LET colIndex == getColumnIndex(sel)
        rowIndex == getRowIndex(sel)
    IN  IF colIndex # NoIndex THEN "tableCol"
        ELSE IF rowIndex # NoIndex THEN "tableRow"
        ELSE IF sel.kind = "node" /\ sel.node = "image" THEN "image"
        ELSE IF isNodeActive("hr", sel) THEN "divider"
        ELSE "formatting"

\* the if-chain that picks the menu without its row branch (a mutation)
pickMenuNoRow(sel) ==
    LET colIndex == getColumnIndex(sel)
        rowIndex == getRowIndex(sel)
    IN  IF colIndex # NoIndex /\ rowIndex # NoIndex THEN "table"
        ELSE IF colIndex # NoIndex THEN "tableCol"
        ELSE IF sel.kind = "node" /\ sel.node = "image" THEN "image"
        ELSE IF isNodeActive("hr", sel) THEN "divider"
        ELSE "formatting"

\* the branch of the if-chain that picks the menu
pickMenu(sel) ==
    LET colIndex == getColumnIndex(sel)
        rowIndex == getRowIndex(sel)
        isTableSelection == colIndex # NoIndex /\ rowIndex # NoIndex
        isImageSelection == sel.kind = "node" /\ sel.node = "image"
        isDividerSelection == isNodeActive("hr", sel)
    IN  IF isTableSelection THEN "table"
        ELSE IF colIndex # NoIndex THEN "tableCol"
        ELSE IF rowIndex # NoIndex THEN "tableRow"
        ELSE IF isImageSelection THEN "image"
        ELSE IF isDividerSelection THEN "divider"
        ELSE "formatting"

\* the items of the picked menu
menuItems(menu, sel, isTemplate, rtl) ==
    CASE menu = "table" -> getTableMenuItems
      [] menu = "tableCol" -> getTableColMenuItems(getColumnIndex(sel)[1], rtl)
      [] menu = "tableRow" -> getTableRowMenuItems(getRowIndex(sel)[1])
      [] menu = "image" -> getImageMenuItems
      [] menu = "divider" -> getDividerMenuItems
      [] OTHER -> getFormattingMenuItems(isTemplate)

\* items.filter(...): items of disabled extensions are removed
availableItems(items, cmds) ==
    SelectSeqBy(items, {i \in 1..Len(items) :
                          \/ items[i].name = "separator"
                          \/ ~(items[i].name # "" /\
                               ~hasCommand(cmds, items[i].name))})

\* the render of SelectionToolbar: nothing in a code block, else the picked
\* menu, filtered and collapsed, and nothing when no item is left
renderToolbar(sel, isTemplate, rtl, cmds) ==
    IF isNodeActive("code_block", sel)
    THEN [selection |-> sel, isTemplate |-> isTemplate, rtl |-> rtl,
          menu |-> "none", items |-> <<>>, rendered |-> FALSE]
    ELSE
    LET menu == pickMenu(sel)
        items == filterExcessSeparators(
                    availableItems(menuItems(menu, sel, isTemplate, rtl), cmds))
    IN  [selection |-> sel, isTemplate |-> isTemplate, rtl |-> rtl,
         menu |-> menu, items |-> items, rendered |-> Len(items) > 0]

\* SelectionToolbar renders for selection sel after a step that made calls:
\* the hooks run, then the open/close effect and the listener effect
ToolbarRender(ev, calls, sel, isTemplate, rtl, cmds) ==
    LET hooks == Hooks(toolbarHooks, sel)
    IN  /\ mounted = "SelectionToolbar"
        /\ toolbar' = renderToolbar(sel, isTemplate, rtl, cmds)
        /\ toolbarHooks' = hooks
        /\ commands' = cmds
        /\ listeners' = effect(listeners, {"mouseup"},
                               toolbarListenerEffect(toolbarHooks,
                                                     hooks.isActive),
                               toolbarDeps(hooks.isActive))
        /\ event' = ev
        /\ fx' = calls \o notify(usePrevious(toolbarHooks), hooks.isActive)
        /\ UNCHANGED <<props, insertItem, selectedIndex, position, filtered,
                       layout, mounted, extensions, model>>

\* the document or the selection changes
SelectionChange ==
    \E sel \in Selections :
        /\ sel # toolbar.selection
        /\ ToolbarRender(Event("selection", "", "", ""), <<>>, sel,
                         toolbar.isTemplate, toolbar.rtl, commands)

\* the host renders the toolbar with other props, or the editor has other
\* commands
ChangeToolbarHost ==
    \E isTemplate \in BOOLEAN, rtl \in BOOLEAN, cmds \in ToolbarCommandTables :
        /\ <<isTemplate, rtl, cmds>>
             # <<toolbar.isTemplate, toolbar.rtl, commands>>
        /\ ToolbarRender(Event("props", "", "", ""), <<>>, toolbar.selection,
                         isTemplate, rtl, cmds)

\* a mouse button released anywhere in the window: handleClickOutside runs if
\* it is registered, and a dispatched selection renders the toolbar again
MouseUp ==
    \E inside \in BOOLEAN, inputFocus \in BOOLEAN, viewFocus \in BOOLEAN :
        LET calls == IF \E i \in 1..Len(listeners) :
                            listeners[i].kind = "mouseup"
                     THEN handleClickOutside(
                            (CHOOSE l \in entriesOf(listeners) :
                                l.kind = "mouseup").deps.isActive,
                            inside, inputFocus, viewFocus)
                     ELSE <<>>
            sel == IF calls = <<>> THEN toolbar.selection
                   ELSE TextSel(TRUE, FALSE)
        IN  /\ mounted = "SelectionToolbar"
            /\ inside => (toolbar.rendered /\ toolbarHooks.isActive)
            /\ IF calls = <<>>
               THEN /\ event' = Event("mouseup", "",
                                      IF inside THEN "menu" ELSE "outside",
                                      focusOf(inputFocus, viewFocus))
                    /\ fx' = <<>>
                    /\ UNCHANGED <<props, commands, insertItem, selectedIndex,
                                   position, filtered, layout, toolbar,
                                   mounted, listeners, toolbarHooks,
                                   extensions, model>>
               ELSE ToolbarRender(Event("mouseup", "", "outside",
                                        focusOf(inputFocus, viewFocus)), calls,
                                  sel, toolbar.isTemplate, toolbar.rtl,
                                  commands)

\* the largest document position of a selection end
MaxPos == 2

\* the titles LinkEditor asks a link to be created for
Titles == {"New doc"}

\* dispatch(tr.removeMark(from, to, link).addMark(from, to, link{href})):
\* the placeholder link over the range from..to
FxPlaceholder(from, to) == Fx("dispatch", "addMark", ToString(<<from, to>>))

\* createAndInsertLink(view, title, href, {onCreateLink, ...})
FxCreateLink(title) == Fx("createAndInsertLink", title, "onCreateLink")

\* handleOnCreateLink without the test of a collapsed selection (a mutation)
handleOnCreateLinkCollapsed(onCreateLink, from, to, title) ==
    IF ~onCreateLink THEN <<>>
    ELSE <<FxPlaceholder(from, to), FxCreateLink(title)>>

\* handleOnCreateLink(title), for the props' onCreateLink (given or not) and
\* the selection from..to of view.state: the calls it makes, in order
handleOnCreateLink(onCreateLink, from, to, title) ==
    IF ~onCreateLink THEN <<>>
    ELSE IF from = to THEN <<>>
    ELSE <<FxPlaceholder(from, to), FxCreateLink(title)>>

\* LinkEditor, rendered for a selection in a link, asks for a link to be
\* created: it calls the onCreateLink it was given, handleOnCreateLink when
\* the toolbar's props have onCreateLink; a dispatched transaction renders
\* the toolbar again, the selection now lying in the placeholder link
CreateLink ==
    \E onCreateLink \in BOOLEAN, from \in 0..MaxPos, to \in 0..MaxPos,
       title \in Titles :
        LET calls == handleOnCreateLink(onCreateLink, from, to, title)
            ev == Event("createLink", ToString(from),
                        IF onCreateLink THEN "onCreateLink" ELSE "",
                        ToString(to))
        IN  /\ mounted = "SelectionToolbar"
            /\ toolbar.rendered
            /\ toolbar.selection.link
            /\ from <= to
            /\ (from = to) <=> toolbar.selection.empty
            /\ IF calls = <<>>
               THEN /\ event' = ev
                    /\ fx' = <<>>
                    /\ UNCHANGED <<props, commands, insertItem, selectedIndex,
                                   position, filtered, layout, toolbar,
                                   mounted, listeners, toolbarHooks,
                                   extensions, model>>
               ELSE ToolbarRender(ev, calls,
                                  [toolbar.selection EXCEPT !.link = TRUE],
                                  toolbar.isTemplate, toolbar.rtl, commands)

\* the mounted component is unmounted: the cleanups of its effects run
Unmount ==
    /\ mounted \in {"SuggestionsMenu", "SelectionToolbar"}
    /\ mounted' = "unmounted"
    /\ listeners' = removeEventListeners(
                        listeners,
                        IF mounted = "SuggestionsMenu"
                        THEN {"mousedown", "keydown"} ELSE {"mouseup"})
    /\ event' = Event("unmount", "", "", "")
    /\ fx' = <<>>
    /\ UNCHANGED <<props, commands, insertItem, selectedIndex, position,
                   filtered, layout, toolbar, toolbarHooks, extensions, model>>

(***************************************************************************)
(* The extension presets of shared/editor/nodes/index.ts.  A descriptor is *)
(* the name the module imports it under.  The evaluation of the module is  *)
(* modelled element by element: the array literal basicExtensions, the     *)
(* filter over it that starts richExtensions, the rest of that literal,    *)
(* and then calls of withComments on either preset.                        *)
(***************************************************************************)
basicExtensionsLiteral ==
    <<"Doc", "Paragraph", "Emoji", "Text", "SimpleImage", "Bold", "Code",
      "Italic", "Underline", "Link", "Strikethrough", "History", "SmartText",
      "TrailingNode", "PasteHandler", "Placeholder", "MaxLength", "DateTime",
      "Keys", "ClipboardTextSerializer">>

richExtensionsLiteral ==
    <<"Image", "HardBreak", "CodeBlock", "CodeFence", "CheckboxList",
      "CheckboxItem", "Blockquote", "BulletList", "OrderedList", "Embed",
      "ListItem", "Attachment", "Notice", "Heading", "HorizontalRule",
      "Table", "TableCell", "TableHeadCell", "TableRow", "Highlight",
      "TemplatePlaceholder", "Folding", "BlockMenuTrigger", "Math",
      "MathBlock", "PreventTab">>

withCommentsLiteral == <<"Mention", "Comment">>

\* the filter callback keeping every descriptor (a mutation)
keepsEveryExtension(n) == TRUE

\* the callback of basicExtensions.filter: (n) => n !== SimpleImage
keepsExtension(n) == n # "SimpleImage"

\* the arrays of the module: phase says what is evaluated next; scanned
\* counts the elements the filter, or the spread of withComments, has read
Extensions(phase, basic, rich, scanned, nodes, result) ==
    [phase |-> phase, basicExtensions |-> basic, richExtensions |-> rich,
     scanned |-> scanned, nodes |-> nodes, withComments |-> result]

\* the module is not evaluated in the runs of the components
NoExtensions == Extensions("idle", <<>>, <<>>, 0, <<>>, <<>>)

\* the next element of the literal basicExtensions is evaluated
EvalBasic ==
    LET e == extensions
        n == Len(e.basicExtensions) + 1
        basic == Append(e.basicExtensions, basicExtensionsLiteral[n])
    IN  /\ e.phase = "basicExtensions"
        /\ extensions' =
              [e EXCEPT !.basicExtensions = basic,
                        !.phase = IF n = Len(basicExtensionsLiteral)
                                  THEN "filter" ELSE @]

\* ...basicExtensions.filter(...): the filter reads the next element
EvalFilter ==
    LET e == extensions
        n == e.scanned + 1
        d == e.basicExtensions[n]
    IN  /\ e.phase = "filter"
        /\ extensions' =
              [e EXCEPT !.scanned = n,
                        !.richExtensions = IF keepsExtension(d)
                                           THEN Append(@, d) ELSE @,
                        !.phase = IF n = Len(e.basicExtensions)
                                  THEN "richExtensions" ELSE @]

\* the next element of the literal richExtensions, after the spread
EvalRich ==
    LET e == extensions
        n == Len(e.richExtensions) - Len(SelectSeq(e.basicExtensions,
                                                   keepsExtension)) + 1
    IN  /\ e.phase = "richExtensions"
        /\ extensions' =
              [e EXCEPT !.richExtensions = Append(@, richExtensionsLiteral[n]),
                        !.phase = IF n = Len(richExtensionsLiteral)
                                  THEN "evaluated" ELSE @]

\* withComments(nodes) is called on one of the presets
CallWithComments ==
    \E nodes \in {extensions.basicExtensions, extensions.richExtensions} :
        /\ extensions.phase \in {"evaluated", "returned"}
        /\ extensions' = [extensions EXCEPT !.phase = "withComments",
                                            !.nodes = nodes, !.scanned = 0,
                                            !.withComments = withCommentsLiteral]

\* [Mention, Comment, ...nodes]: the spread reads the next element of nodes
SpreadNodes ==
    LET e == extensions
        n == e.scanned + 1
    IN  /\ e.phase = "withComments"
        /\ extensions' =
              [e EXCEPT !.scanned = n,
                        !.withComments = Append(@, e.nodes[n]),
                        !.phase = IF n = Len(e.nodes) THEN "returned" ELSE @]

(***************************************************************************)
(* BaseModel (src/unnamed/part_000).  save and delete are async: each call *)
(* runs to its await at once, and continues when the store's promise       *)
(* settles.  calls lists the calls made, each pending, resolved or         *)
(* rejected.                                                               *)
(***************************************************************************)
\* the largest number of save and delete calls made on the model
MaxCalls == 3

BaseModel(isSaving, isNew, calls) ==
    [isSaving |-> isSaving, isNew |-> isNew, calls |-> calls]

\* no model is constructed in the runs of the components
NoModel == BaseModel(None, FALSE, <<>>)

\* new BaseModel(fields, store): isSaving is declared and not assigned
\* (undefined), isNew = !this.id
constructor(hasId) == BaseModel(None, ~hasId, <<>>)

Call(op, state) == [op |-> op, state |-> state]

\* finally { this.isSaving = false; } of save and of delete
finally(m) == [m EXCEPT !.isSaving = Some(FALSE)]

\* save(): this.isSaving = true, then the call of store.save up to its await
save(m) == [m EXCEPT !.isSaving = Some(TRUE),
                     !.calls = Append(@, Call("save", "pending"))]

\* delete(): this.isSaving = true, then the call of store.delete up to its
\* await
delete(m) == [m EXCEPT !.isSaving = Some(TRUE),
                       !.calls = Append(@, Call("delete", "pending"))]

\* the promise of call i resolves: a save sets isNew false on the model;
\* then the finally block runs
resolve(m, i) ==
    finally([m EXCEPT !.calls[i].state = "resolved",
                      !.isNew = IF m.calls[i].op = "save" THEN FALSE ELSE @])

\* the promise of call i rejects: the finally block runs, the error is
\* passed on to the caller
reject(m, i) == finally([m EXCEPT !.calls[i].state = "rejected"])

StartSave ==
    /\ Len(model.calls) < MaxCalls
    /\ model' = save(model)

StartDelete ==
    /\ Len(model.calls) < MaxCalls
    /\ model' = delete(model)

Resolve ==
    \E i \in 1..Len(model.calls) :
        /\ model.calls[i].state = "pending"
        /\ model' = resolve(model, i)

Reject ==
    \E i \in 1..Len(model.calls) :
        /\ model.calls[i].state = "pending"
        /\ model' = reject(model, i)

(***************************************************************************)
(* The runs.  A run mounts one of the two components and drives it.        *)
(***************************************************************************)
UnmountedToolbar ==
    [selection |-> TextSel(TRUE, FALSE), isTemplate |-> FALSE, rtl |-> FALSE,
     menu |-> "none", items |-> <<>>, rendered |-> FALSE]

\* SuggestionsMenu is mounted inactive
MenuInit ==
    /\ mounted = "SuggestionsMenu"
    /\ \E h \in Hosts :
        /\ props = propsOf(h, FALSE, <<>>)
        /\ commands = h.commands
    /\ insertItem = None
    /\ selectedIndex = 0
    /\ position = defaultPosition
    /\ filtered \in filteredOutcomes(props, commands)
    /\ layout = MountedLayout
    /\ event = Event("mount", "", "", "")
    /\ fx = <<>>
    /\ toolbar = UnmountedToolbar
    /\ toolbarHooks = NoHooks
    /\ listeners = addEventListeners(<<>>, {"mousedown", "keydown"},
                                     menuDeps(props, commands, filtered,
                                              selectedIndex))
    /\ extensions = NoExtensions
    /\ model = NoModel

\* SelectionToolbar is mounted, on a collapsed selection or on selected text
ToolbarInit ==
    /\ mounted = "SelectionToolbar"
    /\ props = propsOf(Host(<<>>, <<>>, FALSE, TRUE, {}), FALSE, <<>>)
    /\ commands \in ToolbarCommandTables
    /\ insertItem = None
    /\ selectedIndex = 0
    /\ position = defaultPosition
    /\ filtered = <<>>
    /\ layout = MountedLayout
    /\ event = Event("mount", "", "", "")
    /\ extensions = NoExtensions
    /\ model = NoModel
    /\ \E isTemplate \in BOOLEAN, rtl \in BOOLEAN,
          sel \in {TextSel(TRUE, FALSE), TextSel(FALSE, FALSE)} :
        /\ toolbar = renderToolbar(sel, isTemplate, rtl, commands)
        /\ toolbarHooks = Hooks(NoHooks, sel)
        /\ fx = notify(usePrevious(NoHooks), useIsActive(sel))
        /\ listeners = effect(<<>>, {"mouseup"},
                              toolbarListenerEffect(NoHooks, useIsActive(sel)),
                              toolbarDeps(useIsActive(sel)))

Init == MenuInit \/ ToolbarInit

Next ==
    \/ KeyDown
    \/ Paste
    \/ MouseDown
    \/ PointerItem
    \/ ClickItem
    \/ Activate
    \/ Deactivate
    \/ TypeSearch
    \/ DeleteSearch
    \/ ChangeHost
    \/ SelectionChange
    \/ ChangeToolbarHost
    \/ MouseUp
    \/ CreateLink
    \/ Unmount

Spec == Init /\ [][Next]_vars

(***************************************************************************)
(* The positioner on its own: the overlay is mounted over any layout and   *)
(* in either text direction, then opened and closed.                       *)
(***************************************************************************)
PosInit ==
    /\ mounted = "SuggestionsMenu"
    /\ \E rtl \in BOOLEAN :
        props = [propsOf(Host(<<HeadingItem>>, <<>>, FALSE, TRUE, AllCommands),
                         FALSE, <<>>) EXCEPT !.rtl = rtl]
    /\ commands = AllCommands
    /\ insertItem = None
    /\ selectedIndex = 0
    /\ position = defaultPosition
    /\ filtered \in filteredOutcomes(props, commands)
    /\ layout \in Layouts
    /\ event = Event("mount", "", "", "")
    /\ fx = <<>>
    /\ toolbar = UnmountedToolbar
    /\ toolbarHooks = NoHooks
    /\ listeners = addEventListeners(<<>>, {"mousedown", "keydown"},
                                     menuDeps(props, commands, filtered,
                                              selectedIndex))
    /\ extensions = NoExtensions
    /\ model = NoModel

PosNext == Activate \/ Deactivate

SpecPos == PosInit /\ [][PosNext]_vars

(***************************************************************************)
(* The evaluation of nodes/index.ts on its own.                            *)
(***************************************************************************)
ExtInit ==
    /\ mounted = "unmounted"
    /\ props = propsOf(Host(<<>>, <<>>, FALSE, TRUE, {}), FALSE, <<>>)
    /\ commands = {}
    /\ insertItem = None
    /\ selectedIndex = 0
    /\ position = defaultPosition
    /\ filtered = <<>>
    /\ layout = MountedLayout
    /\ event = Event("import", "", "", "")
    /\ fx = <<>>
    /\ toolbar = UnmountedToolbar
    /\ toolbarHooks = NoHooks
    /\ listeners = <<>>
    /\ extensions = Extensions("basicExtensions", <<>>, <<>>, 0, <<>>, <<>>)
    /\ model = NoModel

ExtNext ==
    /\ \/ EvalBasic
       \/ EvalFilter
       \/ EvalRich
       \/ CallWithComments
       \/ SpreadNodes
    /\ UNCHANGED <<props, commands, insertItem, selectedIndex, position,
                   filtered, layout, event, fx, toolbar, mounted, listeners,
                   toolbarHooks, model>>

SpecExt == ExtInit /\ [][ExtNext]_vars

(***************************************************************************)
(* A BaseModel on its own: it is constructed, then save and delete are     *)
(* called and the store settles the calls in any order.                    *)
(***************************************************************************)
ModelInit ==
    /\ mounted = "unmounted"
    /\ props = propsOf(Host(<<>>, <<>>, FALSE, TRUE, {}), FALSE, <<>>)
    /\ commands = {}
    /\ insertItem = None
    /\ selectedIndex = 0
    /\ position = defaultPosition
    /\ filtered = <<>>
    /\ layout = MountedLayout
    /\ event = Event("new", "", "", "")
    /\ fx = <<>>
    /\ toolbar = UnmountedToolbar
    /\ toolbarHooks = NoHooks
    /\ listeners = <<>>
    /\ extensions = NoExtensions
    /\ \E hasId \in BOOLEAN : model = constructor(hasId)

ModelNext ==
    /\ \/ StartSave
       \/ StartDelete
       \/ Resolve
       \/ Reject
    /\ UNCHANGED <<props, commands, insertItem, selectedIndex, position,
                   filtered, layout, event, fx, toolbar, mounted, listeners,
                   toolbarHooks, extensions>>

SpecModel == ModelInit /\ [][ModelNext]_vars

(***************************************************************************)
(* Properties.                                                             *)
(***************************************************************************)
isSeparator(item) == item.name = "separator"

\* no separator first, none last, no two in a row
noExcessSeparators(list) ==
    /\ list # <<>> => ~isSeparator(list[1]) /\ ~isSeparator(list[Len(list)])
    /\ \A i \in 1..(Len(list) - 1) :
          ~(isSeparator(list[i]) /\ isSeparator(list[i + 1]))

\* C1: the candidate list of the suggestion overlay and the item list of the
\* selection toolbar, as rendered, hold no two consecutive separators, no
\* leading separator and no trailing separator.
C1_NoExcessSeparators ==
    /\ noExcessSeparators(filtered)
    /\ noExcessSeparators(toolbar.items)

\* C1 witness: a rendered candidate list whose filter step left excess
\* separators for the collapse to remove
C1_Witness ==
    /\ mounted = "SuggestionsMenu"
    /\ props.isActive
    /\ ~noExcessSeparators(filterItems(props, commands))
    /\ \E i \in 1..Len(filtered) : isSeparator(filtered[i])

\* whether the title or the keywords of an item contain the search text,
\* compared case-insensitively
containsSearch(item, search) ==
    \/ includes(toLowerCase(item.title), toLowerCase(search))
    \/ includes(toLowerCase(item.keywords), toLowerCase(search))

\* C2: in filterable mode with a non-empty search text, in every state (so
\* after every keystroke), every candidate of the list has a title or
\* keywords containing the search text case-insensitively.
C2_SurvivorsMatchSearch ==
    (mounted = "SuggestionsMenu" /\ props.filterable /\ props.search # <<>>)
        => \A i \in 1..Len(filtered) :
              ~isSeparator(filtered[i])
                  => containsSearch(filtered[i], props.search)

\* C2 witness: after a keystroke the list holds a candidate that matches only
\* case-insensitively while another item was dropped by the search
C2_Witness ==
    /\ mounted = "SuggestionsMenu"
    /\ event.type = "search"
    /\ props.filterable
    /\ Len(props.search) = MaxSearchLen
    /\ \E i \in 1..Len(filtered) :
          /\ ~isSeparator(filtered[i])
          /\ ~includes(filtered[i].title, props.search)
          /\ ~includes(filtered[i].keywords, props.search)
    /\ \E i \in 1..Len(allItems(props)) :
          /\ keepItem(allItems(props)[i], [props EXCEPT !.search = <<>>],
                      commands)
          /\ ~keepItem(allItems(props)[i], props, commands)

\* the zero-based index of the last entry that is not a separator
lastReal(list) ==
    CHOOSE i \in 0..(Len(list) - 1) :
        /\ ~isSeparator(list[i + 1])
        /\ \A j \in (i + 1)..(Len(list) - 1) : isSeparator(list[j + 1])

\* a keydown step of the mounted overlay with one of the given keys
keyStep(keys) ==
    /\ mounted = "SuggestionsMenu"
    /\ event'.type = "keydown"
    /\ event'.key \in keys

\* C3: with a non-empty candidate list, a "next" key at the last real
\* candidate and a "previous" key at index 0 leave the selected index and the
\* list as they are, so repeating the key changes nothing.
C3_ClampIsIdempotent ==
    [][/\ (keyStep(NextKeys) /\ Len(filtered) > 0
              /\ selectedIndex = lastReal(filtered))
           => (selectedIndex' = selectedIndex /\ filtered' = filtered)
       /\ (keyStep(PrevKeys) /\ Len(filtered) > 0 /\ selectedIndex = 0)
           => (selectedIndex' = 0 /\ filtered' = filtered)]_vars

\* C3 witness: a "next" key handled by the active overlay at the last of
\* several candidates, the one before it being a separator
C3_Witness ==
    /\ mounted = "SuggestionsMenu"
    /\ props.isActive
    /\ event.type = "keydown" /\ event.key \in NextKeys
    /\ Len(filtered) > 2
    /\ isSeparator(filtered[Len(filtered) - 1])
    /\ event.index = Len(filtered) - 1
    /\ selectedIndex = event.index

\* C4: while the overlay is active with an empty candidate list, a "next" or
\* "previous" key calls onClose and then view.focus, the overlay becomes
\* inactive, and the selected index is unchanged.
C4_EmptyListCloses ==
    [][(keyStep(NextKeys \cup PrevKeys) /\ props.isActive /\ filtered = <<>>)
          => /\ fx' = <<FxClose, FxFocus>>
             /\ ~props'.isActive
             /\ selectedIndex' = selectedIndex]_vars

\* C4 witness: a "previous" key closed the overlay over an empty list while
\* the selected index was not 0
C4_Witness ==
    /\ mounted = "SuggestionsMenu"
    /\ event.type = "keydown" /\ event.key \in PrevKeys
    /\ fx = <<FxClose, FxFocus>>
    /\ filtered = <<>>
    /\ ~props.isActive
    /\ event.index > 0
    /\ selectedIndex = event.index

\* the height the positioner measures for the panel: 0 without a ref
panelHeight(l) == IF l.hasRef THEN l.offsetHeight ELSE 0

\* C5: the position the positioner computed when the overlay was activated
\* has isAbove false, with a bottom offset and no top offset, if and only if
\* the top edge of the anchor rectangle exceeds the panel height plus the
\* margin; otherwise it has isAbove true, with a top offset and no bottom
\* offset.
C5_AboveIffRoom ==
    (mounted = "SuggestionsMenu" /\ props.isActive)
        => /\ (position.isAbove = FALSE)
                <=> (caretPosition(layout).top > panelHeight(layout) + margin)
           /\ ~position.isAbove
                => (position.top = Undefined /\ position.bottom # Undefined)
           /\ position.isAbove
                => (position.top.kind = "number"
                        /\ position.bottom = Undefined)

\* C5 witness: an active overlay placed above an anchor whose top edge
\* exceeds the measured panel height plus the margin by one
C5_Witness ==
    /\ mounted = "SuggestionsMenu"
    /\ props.isActive
    /\ event.type = "activate"
    /\ layout.hasRef
    /\ caretPosition(layout).top = layout.offsetHeight + margin + 1
    /\ position.isAbove = FALSE
    /\ position.bottom.kind = "number"

\* the entries of a list
entries(list) == {list[i] : i \in 1..Len(list)}

\* C6 as stated: whenever the selection has a row index, the toolbar shows
\* the row menu.
C6_RowIndexGivesRowMenu ==
    (mounted = "SelectionToolbar"
        /\ getRowIndex(toolbar.selection) # NoIndex)
        => toolbar.menu = "tableRow"

\* C6: whenever the selection has a row index and no column index, the
\* toolbar's menu is the row menu and every item it holds is an item of
\* getTableRowMenuItems for that row, so none of the table menu or of the
\* formatting menu.
C6_RowOnlyGivesRowMenu ==
    (mounted = "SelectionToolbar"
        /\ getRowIndex(toolbar.selection) # NoIndex
        /\ getColumnIndex(toolbar.selection) = NoIndex)
        => /\ toolbar.menu = "tableRow"
           /\ entries(toolbar.items)
                \subseteq entries(getTableRowMenuItems(
                                    getRowIndex(toolbar.selection)[1]))
           /\ entries(toolbar.items) \cap
                (entries(getTableMenuItems)
                    \cup entries(getFormattingMenuItems(toolbar.isTemplate))
                    \cup entries(getFormattingMenuItems(~toolbar.isTemplate)))
                \subseteq {Separator}

\* C6 witness: the row menu is rendered for a selection of two whole rows,
\* not the first, of a table with more rows
C6_Witness ==
    /\ mounted = "SelectionToolbar"
    /\ toolbar.selection.kind = "cell"
    /\ getRowIndex(toolbar.selection) # NoIndex
    /\ toolbar.selection.top > 0
    /\ toolbar.selection.bottom > toolbar.selection.top
    /\ toolbar.menu = "tableRow"
    /\ toolbar.rendered
    /\ Len(toolbar.items) > 1

\* a step in which the link input of the active overlay receives an event
\* while an item waits for its link
linkInputStep(type) ==
    /\ mounted = "SuggestionsMenu"
    /\ event'.type = type
    /\ event'.target = "linkInput"
    /\ props.isActive
    /\ insertItem # None

\* C7 as stated: pasting text that the matcher of the pending item rejects
\* runs no command, shows a toast and leaves the overlay waiting for a link.
C7_RejectedPasteShowsToast ==
    [][(linkInputStep("paste") /\ ~linkMatches(event'.arg))
          => /\ fx' = <<FxToast>>
             /\ insertItem' = insertItem
             /\ props'.isActive]_vars

\* C8 as stated: Enter in the link input with a value the matcher rejects,
\* or with no matcher, shows the invalid-link toast and neither runs a
\* command, clears the search nor closes; with a value the matcher accepts it
\* commits the "embed" command with the value as href and closes.
C8_EnterValidatesLink ==
    [][(linkInputStep("keydown") /\ event'.key = "Enter")
          => IF linkMatches(event'.arg)
             THEN /\ fx' = <<FxClearSearch, FxCommand("embed", event'.arg),
                             FxClose>>
                  /\ ~props'.isActive
             ELSE /\ fx' = <<FxToast>>
                  /\ insertItem' = insertItem
                  /\ props' = props]_vars

\* the calls of a commit of item: clear the search, run the command under
\* the literal name if there is one, else under the create-name, insert a
\* space if the item asks for it, close
commitCalls(item) ==
    <<FxClearSearch,
      FxCommand(IF hasCommand(commands, item.name) THEN item.name
                ELSE createName(item.name), item.attrs)>>
    \o (IF item.hasAppendSpace THEN <<FxInsertSpace>> ELSE <<>>)
    \o <<FxClose>>

\* Enter reaches the active overlay while a list entry is highlighted
enterOnEntry ==
    /\ keyStep({"Enter"})
    /\ props.isActive
    /\ entryAt(filtered, selectedIndex) # None

\* the names handleClickItem does not hand to insertNode
SpecialNames == {"image", "attachment", "embed", "link"}

\* C9 as stated: Enter on any highlighted entry makes exactly the calls of a
\* commit, in their order.
C9_EnterCommitsAnyEntry ==
    [][enterOnEntry => fx' = commitCalls(filtered[selectedIndex + 1])]_vars

\* C9: Enter on a highlighted candidate that has a name other than image,
\* attachment, embed and link makes exactly these calls in this order: clear
\* the search, one command (the literal name if it exists, else the
\* create-name), a space if the item asks for it, close; the search is then
\* empty and the overlay inactive.  On a candidate without a name it clears
\* the search and fails before any command or close.
C9_EnterCommitsInOrder ==
    [][enterOnEntry
          => LET item == filtered[selectedIndex + 1]
             IN  /\ item.name \notin SpecialNames \cup {"separator", ""}
                      => /\ fx' = commitCalls(item)
                         /\ props'.search = <<>>
                         /\ ~props'.isActive
                 /\ item.name = ""
                      => fx' = <<FxClearSearch, FxThrow>>]_vars

\* C9 witness: Enter committed a candidate under its create-name, with a
\* trailing space, while a search text was typed
C9_Witness ==
    /\ mounted = "SuggestionsMenu"
    /\ event.type = "keydown" /\ event.key = "Enter"
    /\ Len(fx) = 4
    /\ fx[1] = FxClearSearch
    /\ fx[2].op = "command" /\ fx[2].arg = createName("mention")
    /\ fx[3] = FxInsertSpace
    /\ fx[4] = FxClose
    /\ ~props.isActive

\* C10: Enter while the active overlay has no entry at the selected index
\* calls onClose(true) and nothing else: no command runs, the search is not
\* cleared, and the overlay becomes inactive.
C10_EnterWithoutEntry ==
    [][(keyStep({"Enter"}) /\ props.isActive
            /\ entryAt(filtered, selectedIndex) = None)
          => /\ fx' = <<FxCloseNewLine>>
             /\ props'.search = props.search
             /\ ~props'.isActive]_vars

\* C10 witness: Enter closed the overlay with the new-line signal while the
\* search text, which no candidate matches, stayed
C10_Witness ==
    /\ mounted = "SuggestionsMenu"
    /\ event.type = "keydown" /\ event.key = "Enter"
    /\ fx = <<FxCloseNewLine>>
    /\ filtered = <<>>
    /\ props.search # <<>>
    /\ ~props.isActive

\* a step in which the active overlay handles Escape or a mouse press
\* outside the panel
dismissStep ==
    /\ mounted = "SuggestionsMenu"
    /\ props.isActive
    /\ \/ event'.type = "keydown" /\ event'.key = "Escape"
       \/ event'.type = "mousedown" /\ event'.target = "outside"

\* C11 as stated: Escape or a pointer press outside, while the overlay is
\* active or waits for a link, leaves it inactive with the search text and
\* the pending link item discarded.
C11_DismissDiscards ==
    [][dismissStep
          => /\ ~props'.isActive
             /\ props'.search = <<>>
             /\ insertItem' = None]_vars

\* C12: in every render of the selection toolbar onOpen is called exactly
\* when the activation predicate is true and was not true in the render
\* before (or there was none), and onClose exactly when it is false and was
\* true; so the two alternate, onOpen first, and a render in which the
\* predicate did not change calls neither.
C12_NotifyOnBoundary ==
    /\ mounted = "SelectionToolbar"
          => /\ called(fx, "onOpen") <=> toolbarHooks.isActive
             /\ ~called(fx, "onClose")
    /\ [][(mounted = "SelectionToolbar" /\ mounted' = "SelectionToolbar")
            => /\ called(fx', "onOpen")
                    <=> (~toolbarHooks.isActive /\ toolbarHooks'.isActive)
               /\ called(fx', "onClose")
                    <=> (toolbarHooks.isActive /\ ~toolbarHooks'.isActive)
               /\ called(fx', "onOpen")
                    => toolbarHooks.last \in {"none", "onClose"}
               /\ called(fx', "onClose") => toolbarHooks.last = "onOpen"
               /\ Cardinality({i \in 1..Len(fx') :
                                 fx'[i].op \in {"onOpen", "onClose"}}) <= 1
          ]_vars

\* C12 witness: a change of selection made the predicate false after it had
\* been true, and onClose was called
C12_Witness ==
    /\ mounted = "SelectionToolbar"
    /\ event.type = "selection"
    /\ fx = <<FxClose>>
    /\ toolbarHooks.last = "onClose"
    /\ ~toolbarHooks.isActive
    /\ toolbar.selection.kind = "node"

\* the activation predicate as C13 states it
activeAsStated(sel) ==
    \/ sel.link
    \/ /\ ~sel.empty
       /\ \/ sel.kind = "node" /\ sel.node \in {"hr", "image"}
          \/ sel.kind # "node" /\ sel.hasContent

\* C13 as stated: the toolbar is active exactly when a link mark is active,
\* or the selection is not empty and is a node selection of a horizontal
\* rule or an image, or not a node selection and has a node with content.
C13_ActiveAsStated ==
    mounted = "SelectionToolbar"
        => (toolbarHooks.isActive <=> activeAsStated(toolbar.selection))

\* C13: the toolbar is active exactly when a link mark is active, or the
\* selection is not empty and is a node selection of a horizontal rule or an
\* image, or is not a node selection, has a node with content and, if it is
\* a text selection, has text; so it is inactive for every other node
\* selection and for an empty selection without a link mark.
C13_ActiveExactly ==
    mounted = "SelectionToolbar"
        => LET sel == toolbar.selection
           IN  toolbarHooks.isActive
                 <=> \/ sel.link
                     \/ /\ ~sel.empty
                        /\ \/ sel.kind = "node" /\ sel.node \in {"hr", "image"}
                           \/ /\ sel.kind # "node"
                              /\ sel.hasContent
                              /\ sel.kind = "text" => sel.hasText

\* C13 witness: the toolbar is inactive on a text selection that is not
\* empty and has a node with content, but no text
C13_Witness ==
    /\ mounted = "SelectionToolbar"
    /\ event.type = "selection"
    /\ toolbar.selection.kind = "text"
    /\ ~toolbar.selection.empty
    /\ ~toolbar.selection.link
    /\ toolbar.selection.hasContent
    /\ ~toolbar.selection.hasText
    /\ ~toolbarHooks.isActive

\* the five predicates of menu assembly, in the order they are tested
menuPredicates(sel) ==
    <<getColumnIndex(sel) # NoIndex /\ getRowIndex(sel) # NoIndex,
      getColumnIndex(sel) # NoIndex,
      getRowIndex(sel) # NoIndex,
      sel.kind = "node" /\ sel.node = "image",
      isNodeActive("hr", sel)>>

menuNames == <<"table", "tableCol", "tableRow", "image", "divider">>

holding(sel) == {i \in 1..5 : menuPredicates(sel)[i]}

\* C14 as stated: for no selection does more than one of the five predicates
\* hold.
C14_PredicatesExclusive ==
    (mounted = "SelectionToolbar" /\ toolbar.menu # "none")
        => Cardinality(holding(toolbar.selection)) <= 1

\* C14: menu assembly picks one menu, that of the first predicate that holds
\* in the order table, column, row, image, divider, and the formatting menu
\* when none holds.  The image and divider predicates hold together with no
\* other; the table predicate holds only together with the column and the
\* row predicate, and those two hold together only with the table predicate.
C14_FirstMatchWins ==
    (mounted = "SelectionToolbar" /\ toolbar.menu # "none")
        => LET h == holding(toolbar.selection)
           IN  /\ toolbar.menu =
                    IF h = {} THEN "formatting"
                    ELSE menuNames[CHOOSE i \in h : \A j \in h : i <= j]
               /\ (4 \in h \/ 5 \in h) => Cardinality(h) = 1
               /\ 1 \in h <=> (2 \in h /\ 3 \in h)

\* C14 witness: the table menu is rendered for a selection of a whole table
\* of several rows and columns, for which three predicates hold
C14_Witness ==
    /\ mounted = "SelectionToolbar"
    /\ toolbar.menu = "table"
    /\ toolbar.rendered
    /\ toolbar.selection.tableRows > 1
    /\ toolbar.selection.tableCols > 1
    /\ Cardinality(holding(toolbar.selection)) = 3

\* C15 as stated: while the overlay, or the toolbar, is inactive none of its
\* window listeners is registered, and no window mouse or key event makes it
\* call onClose or dispatch.
C15_ListenersOnlyWhileActive ==
    [][/\ (mounted = "SuggestionsMenu" /\ ~props.isActive)
            => /\ listeners = <<>>
               /\ event'.type \in {"mousedown", "keydown"}
                    => ~called(fx', "onClose") /\ ~called(fx', "command")
       /\ (mounted = "SelectionToolbar" /\ ~toolbarHooks.isActive)
            => /\ listeners = <<>>
               /\ event'.type = "mouseup" => ~called(fx', "dispatch")]_vars

\* the kinds of handler a component registers on window
kindsOf(component) ==
    CASE component = "SuggestionsMenu" -> {"mousedown", "keydown"}
      [] component = "SelectionToolbar" -> {"mouseup"}
      [] OTHER -> {}

\* for each kind of the mounted component one handler is registered, and no
\* other handler: none is left over and none after unmount
oneListenerPerKind ==
    /\ \A k \in kindsOf(mounted) :
          Cardinality({i \in 1..Len(listeners) : listeners[i].kind = k}) = 1
    /\ Len(listeners) = Cardinality(kindsOf(mounted))

\* C16 as stated: at most one handler per kind is registered, each is the
\* one the latest render created, and none remains after unmount.
C16_LatestHandlersOnly ==
    /\ oneListenerPerKind
    /\ \A i \in 1..Len(listeners) : listeners[i].latest

\* C16: for each event kind of the mounted component exactly one handler is
\* registered, none remains after unmount, and every registered handler
\* holds the values the dependencies of its effect have in the latest
\* render (it is the handler of the latest render in which one of them
\* changed).
C16_NoListenerLeak ==
    /\ oneListenerPerKind
    /\ \A i \in 1..Len(listeners) :
          listeners[i].deps =
              IF mounted = "SuggestionsMenu"
              THEN menuDeps(props, commands, filtered, selectedIndex)
              ELSE toolbarDeps(toolbarHooks.isActive)

\* C16 witness: after several renders the overlay's two handlers are those
\* of an earlier render, the latest one having changed only insertItem
C16_Witness ==
    /\ mounted = "SuggestionsMenu"
    /\ props.isActive
    /\ insertItem # None
    /\ Len(listeners) = 2
    /\ \A i \in 1..Len(listeners) : ~listeners[i].latest
    /\ props.search # <<>>

\* C17 as stated: when the lookup of the anchor coordinates fails while the
\* overlay is active, the position computed is the default position.
C17_FailedLookupGivesDefault ==
    (mounted = "SuggestionsMenu" /\ props.isActive /\ layout.coordsThrow)
        => position = defaultPosition

\* C18 as stated: every item offered that is not a separator has its
\* command (in the active overlay under the literal name or the create-name,
\* in the toolbar under the literal name), and no commit calls an absent
\* command.
C18_OfferedItemsHaveCommands ==
    /\ (mounted = "SuggestionsMenu" /\ props.isActive)
          => /\ \A i \in 1..Len(filtered) :
                    ~isSeparator(filtered[i])
                        => \/ hasCommand(commands, filtered[i].name)
                           \/ hasCommand(commands,
                                         createName(filtered[i].name))
             /\ ~called(fx, "throw")
    /\ mounted = "SelectionToolbar"
          => \A i \in 1..Len(toolbar.items) :
                ~isSeparator(toolbar.items[i])
                    => hasCommand(commands, toolbar.items[i].name)

\* C19 as stated: without uploadFile the candidate list of the active
\* overlay holds neither the image nor the attachment candidate, and no file
\* picker is opened.
C19_NoUploadNoFileCandidates ==
    (mounted = "SuggestionsMenu" /\ props.isActive /\ ~props.uploadFile)
        => /\ \A i \in 1..Len(filtered) :
                filtered[i].name \notin {"image", "attachment"}
           /\ ~called(fx, "inputRef.click")

\* the list s without the descriptor d
without(s, d) == SelectSeqBy(s, {i \in 1..Len(s) : s[i] # d})

\* no descriptor occurs twice in s
noDuplicates(s) == \A i, j \in 1..Len(s) : s[i] = s[j] => i = j

\* the module has evaluated both presets
evaluated == extensions.phase \in {"evaluated", "withComments", "returned"}

\* C20 as stated: every descriptor of basicExtensions is in richExtensions,
\* in the same relative order, and neither preset holds a descriptor twice.
C20_RichExtendsBasic ==
    evaluated
        => /\ isSubsequence(extensions.basicExtensions,
                            extensions.richExtensions)
           /\ noDuplicates(extensions.basicExtensions)
           /\ noDuplicates(extensions.richExtensions)

\* C20: every descriptor of basicExtensions other than SimpleImage is in
\* richExtensions, in the same relative order and before every additional
\* descriptor; SimpleImage is in basicExtensions and not in richExtensions;
\* neither preset holds a descriptor twice.
C20_RichExtendsBasicButSimpleImage ==
    evaluated
        => LET basic == extensions.basicExtensions
               rich == extensions.richExtensions
               kept == without(basic, "SimpleImage")
           IN  /\ SubSeq(rich, 1, Len(kept)) = kept
               /\ Len(rich) > Len(kept)
               /\ "SimpleImage" \in entriesOf(basic)
               /\ "SimpleImage" \notin entriesOf(rich)
               /\ noDuplicates(basic)
               /\ noDuplicates(rich)

\* C20 witness: both presets are evaluated and withComments has returned the
\* full preset with its two descriptors in front
C20_Witness ==
    /\ extensions.phase = "returned"
    /\ extensions.nodes = extensions.richExtensions
    /\ Len(extensions.richExtensions)
          = Len(basicExtensionsLiteral) - 1 + Len(richExtensionsLiteral)
    /\ Len(extensions.withComments) = Len(extensions.richExtensions) + 2

\* whether the zero-based index i of list holds a separator
separatorAt(list, i) ==
    entryAt(list, i) # None /\ isSeparator(entryAt(list, i)[1])

\* the zero-based indexes of list that hold a candidate, not a separator
realIndexes(list) ==
    {i \in 0..(Len(list) - 1) : ~isSeparator(list[i + 1])}

C22_SelectionOnCandidate ==
    (mounted = "SuggestionsMenu" /\ props.isActive /\ filtered # <<>>)
        => selectedIndex \in realIndexes(filtered)

C24_CodeBlockDisablesToolbar ==
    (mounted = "SelectionToolbar" /\ toolbar.selection.inCode)
        => /\ ~toolbar.rendered
           /\ toolbar.items = <<>>
           /\ ~called(fx, "onOpen")
           /\ ~toolbarHooks.isActive

\* C25 as stated: for an active overlay the right edge of the panel does not
\* exceed the width of the window less the margin, and in right-to-left mode
\* the panel is aligned with its right edge to the right edge of the anchor,
\* relative to the positioned ancestor.
C25_HorizontalPlacement ==
    (mounted = "SuggestionsMenu" /\ props.isActive)
        => LET width == IF layout.hasRef THEN layout.offsetWidth ELSE 0
               ancestorLeft == IF layout.hasRef /\ layout.hasOffsetParent
                               THEN layout.offsetParent.left ELSE 0
               caret == caretPosition(layout)
           IN  /\ ancestorLeft + position.left.val + width
                    <= layout.innerWidth - margin
               /\ ~props.rtl
                    => position.left.val
                          = Min(caret.left - ancestorLeft,
                                layout.innerWidth - margin - width
                                    - ancestorLeft)
               /\ props.rtl
                    => position.left.val
                          = caret.right - ancestorLeft - width

\* an item the filter lets through whatever the search text is: its command
\* exists under the literal name or the create-name (an item without a name
\* is not tested), and an image needs uploadFile
available(item) ==
    /\ item.name # ""
          => \/ hasCommand(commands, item.name)
             \/ hasCommand(commands, createName(item.name))
    /\ item.name = "image" => props.uploadFile

\* the entries of list that are no separators, in their order
candidates(list) ==
    SelectSeqBy(list, {i \in 1..Len(list) : ~isSeparator(list[i])})

\* C26: while the search text is empty, the candidates of the list are
\* exactly the available items not flagged default-hidden, in the order of
\* the item list (the static items, then the embed items); the list with its
\* separators is taken from the item list in order, with separators
\* collapsed; so no item flagged default-hidden is in it.
C26_EmptySearchKeepsOrder ==
    (mounted = "SuggestionsMenu" /\ props.search = <<>>)
        => LET all == allItems(props)
               shown == SelectSeqBy(all, {i \in 1..Len(all) :
                                            /\ ~isSeparator(all[i])
                                            /\ available(all[i])
                                            /\ ~all[i].defaultHidden})
           IN  /\ candidates(filtered) = shown
               /\ isSubsequence(filtered, all)
               /\ noExcessSeparators(filtered)
               /\ \A i \in 1..Len(filtered) : ~filtered[i].defaultHidden

\* C26 witness: an active overlay with empty search whose list holds static
\* items, a separator and an embed item, one invisible embed being left out
C26_Witness ==
    /\ mounted = "SuggestionsMenu"
    /\ props.isActive
    /\ props.search = <<>>
    /\ Len(props.embeds) > Len(embedItemsOf(props.embeds))
    /\ Len(filtered) > 3
    /\ filtered[Len(filtered)].name = "embed"
    /\ isSeparator(filtered[Len(filtered) - 1])

\* the steps that select the entry of zero-based index i: Enter handled by
\* the active overlay with i selected, or a click on row i
selectStep(i) ==
    /\ mounted = "SuggestionsMenu"
    /\ props.isActive
    /\ entryAt(filtered, i) # None
    /\ \/ event'.type = "keydown" /\ event'.key = "Enter" /\ i = selectedIndex
       \/ event'.type = "click" /\ event'.arg = ToString(i)

\* C27: selecting a candidate named embed, image, attachment or link runs no
\* command.  embed only stores the item as pending and leaves the overlay
\* active; image and attachment make no call but the click on the file input
\* (which exists when uploadFile is given); link calls onClearSearch, onClose
\* and onLinkToolbarOpen in this order.
C27_ShortcutsRunNoCommand ==
    [][\A i \in 0..(Len(filtered) - 1) :
          (selectStep(i) /\ filtered[i + 1].name \in SpecialNames)
              => LET item == filtered[i + 1]
                 IN  /\ ~called(fx', "command")
                     /\ item.name = "embed"
                          => /\ fx' = <<>>
                             /\ insertItem' = Some(item)
                             /\ props' = props
                     /\ item.name \in {"image", "attachment"}
                          => /\ fx' = IF props.uploadFile
                                      THEN <<FxFilePick(
                                               IF item.name = "image"
                                               THEN "image/*" ELSE "*")>>
                                      ELSE <<>>
                             /\ insertItem' = insertItem
                             /\ props' = props
                     /\ item.name = "link"
                          => /\ fx' = <<FxClearSearch, FxClose, FxLinkToolbar>>
                             /\ ~props'.isActive
                             /\ props'.search = <<>>]_vars

\* C27 witness: a click on an embed candidate, while a search text was
\* typed, stored it as the pending item and left the overlay active
C27_Witness ==
    /\ mounted = "SuggestionsMenu"
    /\ event.type = "click"
    /\ fx = <<>>
    /\ props.isActive
    /\ props.search # <<>>
    /\ insertItem # None
    /\ insertItem[1].name = "embed"
    /\ insertItem[1].matcher # NoMatcher

\* C28: a create-link request in the toolbar calls createAndInsertLink only
\* after dispatching the placeholder link over exactly the selected range
\* from..to, which is not empty; with a collapsed selection, or without
\* onCreateLink in the props, nothing is dispatched and no creation starts.
C28_PlaceholderBeforeCreate ==
    [][event'.type = "createLink"
          => \E from \in 0..MaxPos, to \in 0..MaxPos :
                /\ event'.key = ToString(from)
                /\ event'.arg = ToString(to)
                /\ (from = to) <=> toolbar.selection.empty
                /\ IF event'.target = "onCreateLink" /\ from # to
                   THEN /\ Len(fx') >= 2
                        /\ fx'[1] = FxPlaceholder(from, to)
                        /\ fx'[2].op = "createAndInsertLink"
                        /\ \A i \in 3..Len(fx') :
                              fx'[i].op \notin {"dispatch",
                                                "createAndInsertLink"}
                   ELSE /\ fx' = <<>>
                        /\ toolbar' = toolbar]_vars

\* C28 witness: a link was requested with onCreateLink over the range 1..2:
\* the placeholder was dispatched, then the creation started
C28_Witness ==
    /\ mounted = "SelectionToolbar"
    /\ event.type = "createLink"
    /\ event.target = "onCreateLink"
    /\ fx = <<FxPlaceholder(1, 2), FxCreateLink("New doc")>>
    /\ toolbar.selection.link
    /\ ~toolbar.selection.empty

\* a call of save or delete that has not settled
inFlight(m) == \E i \in 1..Len(m.calls) : m.calls[i].state = "pending"

\* C29: under every interleaving of concurrent save and delete calls on a
\* model, isSaving is true whenever at least one of them is in flight, and
\* false once every call made has settled, resolved or rejected.
C29_SavingWhileInFlight ==
    /\ inFlight(model) => model.isSaving = Some(TRUE)
    /\ (model.calls # <<>> /\ ~inFlight(model))
          => model.isSaving = Some(FALSE)

====
